---------------------------- MODULE Spec2Model ----------------------------
(***************************************************************************)
(* syntect-tui (src/src/lib.rs): conversion of text styled by syntect      *)
(* (RGBA colours, a u8 FontStyle bitflag set) into tui values (optional    *)
(* RGB colours, a u16 Modifier bitflag set, Style, Span).                  *)
(*                                                                         *)
(* The four public functions are pure; each is an operator computed the   *)
(* way the source computes it.  The state is that of the callers: which    *)
(* call each one has in flight and what it got back.                       *)
(***************************************************************************)
EXTENDS Integers, Sequences, FiniteSets, TLC

VARIABLES pc, req, ret

vars == <<pc, req, ret>>

(***************************************************************************)
(* Bounds of the model.                                                    *)
(***************************************************************************)
\* number of callers that may have a call in flight at the same time
NumCallers == 2
\* styles and spans take their font style bits from 0..MaxStyleBits and 254
MaxStyleBits == 9

Callers == 1..NumCallers

(***************************************************************************)
(* Machine integers.                                                       *)
(***************************************************************************)
\* u8: the width of FontStyle's bits and of every colour channel
U8_MAX == 255

Bytes == 0..U8_MAX

\* a | b on unsigned integers (the bitflags BitOr impl ors the bits fields)
RECURSIVE BitOr(_, _)
BitOr(a, b) ==
    IF a = 0 THEN b
    ELSE IF b = 0 THEN a
    ELSE (IF a % 2 = 1 \/ b % 2 = 1 THEN 1 ELSE 0) + 2 * BitOr(a \div 2, b \div 2)

(***************************************************************************)
(* syntect::highlighting::FontStyle, a bitflags struct over u8, and        *)
(* tui::style::Modifier, a bitflags struct over u16.  The flag values are  *)
(* those of the two crates (syntect: BOLD 1, UNDERLINE 2, ITALIC 4;        *)
(* tui 0.10: BOLD 1, DIM 2, ITALIC 4, UNDERLINED 8).                       *)
(***************************************************************************)
FontStyle(bits) == [bits |-> bits]
FontStyle_empty     == FontStyle(0)
FontStyle_BOLD      == FontStyle(1)
FontStyle_UNDERLINE == FontStyle(2)
FontStyle_ITALIC    == FontStyle(4)
FontStyle_or(x, y)  == FontStyle(BitOr(x.bits, y.bits))

Modifier(bits) == [bits |-> bits]
Modifier_empty      == Modifier(0)
Modifier_BOLD       == Modifier(1)
Modifier_ITALIC     == Modifier(4)
Modifier_UNDERLINED == Modifier(8)
Modifier_or(x, y)   == Modifier(BitOr(x.bits, y.bits))

(***************************************************************************)
(* Result, Option, the error and the tui values.                           *)
(***************************************************************************)
Ok(v)  == [tag |-> "Ok", val |-> v]
Err(e) == [tag |-> "Err", val |-> e]
Some(v) == [tag |-> "Some", val |-> v]
None    == [tag |-> "None", val |-> <<>>]

\* SyntectTuiError::UnknownFontStyle { bits: u8 }
UnknownFontStyle(bits) == [kind |-> "UnknownFontStyle", bits |-> bits]

\* tui::style::Color::Rgb(r, g, b)
Rgb(r, g, b) == <<"Rgb", r, g, b>>

\* syntect::highlighting::Color { r, g, b, a }
Color(r, g, b, a) == [r |-> r, g |-> g, b |-> b, a |-> a]

\* syntect::highlighting::Style { foreground, background, font_style }
SyntectStyle(fg, bg, fs) == [foreground |-> fg, background |-> bg, font_style |-> fs]

\* String::from(content): a fresh string holding the bytes of content
String_from(content) == [i \in 1..Len(content) |-> content[i]]

\* tui::text::Span::styled(content, style)
Span_styled(content, style) == [content |-> content, style |-> style]

(***************************************************************************)
(* translate_colour: src/src/lib.rs 137-144                                *)
(***************************************************************************)
\* mutant: the alpha guard is dropped, every colour is present
translate_colour_no_guard(c) == Some(Rgb(c.r, c.g, c.b))

\* mutant: alpha is blended into the channels (premultiplied)
translate_colour_blend(c) ==
    IF c.a > 0
    THEN Some(Rgb((c.r * c.a) \div U8_MAX, (c.g * c.a) \div U8_MAX, (c.b * c.a) \div U8_MAX))
    ELSE None

translate_colour(syntect_color) ==
    IF syntect_color.a > 0
    THEN Some(Rgb(syntect_color.r, syntect_color.g, syntect_color.b))
    ELSE None

(***************************************************************************)
(* translate_font_style: src/src/lib.rs 163-187.  The match arms are tried *)
(* in order; each guard compares the whole value with ==.                  *)
(***************************************************************************)
translate_font_style_match(x) ==
    IF x = FontStyle_empty THEN Ok(Modifier_empty)
    ELSE IF x = FontStyle_BOLD THEN Ok(Modifier_BOLD)
    ELSE IF x = FontStyle_ITALIC THEN Ok(Modifier_ITALIC)
    ELSE IF x = FontStyle_UNDERLINE THEN Ok(Modifier_UNDERLINED)
    ELSE IF x = FontStyle_or(FontStyle_BOLD, FontStyle_ITALIC)
         THEN Ok(Modifier_or(Modifier_BOLD, Modifier_ITALIC))
    ELSE IF x = FontStyle_or(FontStyle_BOLD, FontStyle_UNDERLINE)
         THEN Ok(Modifier_or(Modifier_BOLD, Modifier_UNDERLINED))
    ELSE IF x = FontStyle_or(FontStyle_ITALIC, FontStyle_UNDERLINE)
         THEN Ok(Modifier_or(Modifier_ITALIC, Modifier_UNDERLINED))
    ELSE IF x = FontStyle_or(FontStyle_or(FontStyle_BOLD, FontStyle_ITALIC), FontStyle_UNDERLINE)
         THEN Ok(Modifier_or(Modifier_or(Modifier_BOLD, Modifier_ITALIC), Modifier_UNDERLINED))
    ELSE Err(UnknownFontStyle(x.bits))

\* mutant: the bits are carried over as they are (syntect's UNDERLINE bit is
\* tui's DIM bit)
translate_font_style_raw_bits(x) ==
    IF x.bits < 8 THEN Ok(Modifier(x.bits)) ELSE Err(UnknownFontStyle(x.bits))

\* mutant: unknown bits are dropped first, as FontStyle::from_bits_truncate does
translate_font_style_truncate(x) == translate_font_style_match(FontStyle(x.bits % 8))

\* mutant: the argument goes through a buffer shared by the calls in flight,
\* so a call made while another font style is being translated reads that one
translate_font_style_shared(x) ==
    LET others == {c \in Callers : /\ pc[c] = "invoked"
                                   /\ req[c].op = "translate_font_style"
                                   /\ req[c].arg # x}
    IN  IF others = {}
        THEN translate_font_style_match(x)
        ELSE translate_font_style_match(req[CHOOSE c \in others : TRUE].arg)

translate_font_style(syntect_font_style) == translate_font_style_match(syntect_font_style)

(***************************************************************************)
(* translate_style: src/src/lib.rs 106-115.  The struct's fields are       *)
(* evaluated in order; `?` on the font style returns its error as it is    *)
(* (From<SyntectTuiError> for SyntectTuiError is the identity).            *)
(***************************************************************************)
\* mutant: the font style error is swallowed (unwrap_or(Modifier::empty()))
translate_style_swallow(syntect_style) ==
    LET add_modifier == translate_font_style(syntect_style.font_style)
    IN  Ok([fg |-> translate_colour(syntect_style.foreground),
            bg |-> translate_colour(syntect_style.background),
            add_modifier |-> IF add_modifier.tag = "Ok" THEN add_modifier.val
                             ELSE Modifier_empty,
            sub_modifier |-> Modifier_empty])

\* mutant: sub_modifier is given the translated font style too
translate_style_sub(syntect_style) ==
    LET add_modifier == translate_font_style(syntect_style.font_style)
    IN  IF add_modifier.tag = "Err"
        THEN Err(add_modifier.val)
        ELSE Ok([fg |-> translate_colour(syntect_style.foreground),
                 bg |-> translate_colour(syntect_style.background),
                 add_modifier |-> add_modifier.val,
                 sub_modifier |-> add_modifier.val])

\* mutant: foreground and background are swapped
translate_style_swapped(syntect_style) ==
    LET add_modifier == translate_font_style(syntect_style.font_style)
    IN  IF add_modifier.tag = "Err"
        THEN Err(add_modifier.val)
        ELSE Ok([fg |-> translate_colour(syntect_style.background),
                 bg |-> translate_colour(syntect_style.foreground),
                 add_modifier |-> add_modifier.val,
                 sub_modifier |-> Modifier_empty])

translate_style(syntect_style) ==
    LET fg == translate_colour(syntect_style.foreground)
        bg == translate_colour(syntect_style.background)
        add_modifier == translate_font_style(syntect_style.font_style)
    IN  IF add_modifier.tag = "Err"
        THEN Err(add_modifier.val)
        ELSE Ok([fg |-> fg,
                 bg |-> bg,
                 add_modifier |-> add_modifier.val,
                 sub_modifier |-> Modifier_empty])

(***************************************************************************)
(* into_span: src/src/lib.rs 70-77.  The argument is the pair              *)
(* (style, content).                                                       *)
(***************************************************************************)
\* mutant: a style that fails to translate gives a span with the default style
into_span_default_style(segment) ==
    LET style == translate_style(segment[1])
    IN  Ok(Span_styled(String_from(segment[2]),
                       IF style.tag = "Ok" THEN style.val
                       ELSE [fg |-> None, bg |-> None,
                             add_modifier |-> Modifier_empty,
                             sub_modifier |-> Modifier_empty]))

into_span(segment) ==
    LET content == String_from(segment[2])
        style == translate_style(segment[1])
    IN  IF style.tag = "Err"
        THEN Err(style.val)
        ELSE Ok(Span_styled(content, style.val))

(***************************************************************************)
(* The inputs.  A font style is any u8 (FontStyle::from_bits_unchecked     *)
(* builds one from any bits, as the tests do with 254).                    *)
(***************************************************************************)
FontStyles == {FontStyle(b) : b \in Bytes}

ChannelSamples == {0, 12, 123, 255}
AlphaSamples == {0, 1, 128, 255}
Colours == {Color(r, g, b, a) : r \in ChannelSamples, g \in ChannelSamples,
                                b \in ChannelSamples, a \in AlphaSamples}

StyleColours == {Color(12, 123, 234, 128), Color(123, 234, 12, 128),
                 Color(12, 123, 234, 0), Color(255, 0, 0, 255), Color(0, 0, 0, 0)}
StyleFontStyles == {FontStyle(b) : b \in (0..MaxStyleBits) \cup {254}}
Styles == {SyntectStyle(fg, bg, fs) : fg \in StyleColours, bg \in StyleColours,
                                      fs \in StyleFontStyles}

\* "" and "syntax", as bytes
Texts == {<<>>, <<115, 121, 110, 116, 97, 120>>}
Segments == Styles \X Texts

FullInputs ==
    [translate_colour |-> Colours,
     translate_font_style |-> FontStyles,
     translate_style |-> Styles,
     into_span |-> Segments]

\* the few inputs several callers draw from
SampleColours == {Color(12, 123, 234, 128), Color(12, 123, 234, 0)}
SampleFontStyles == {FontStyle_BOLD, FontStyle(3), FontStyle(254)}
SampleStyles == {SyntectStyle(fg, bg, fs) : fg \in {Color(12, 123, 234, 128)},
                                            bg \in SampleColours,
                                            fs \in {FontStyle_UNDERLINE, FontStyle(254)}}
SampleInputs ==
    [translate_colour |-> SampleColours,
     translate_font_style |-> SampleFontStyles,
     translate_style |-> SampleStyles,
     into_span |-> SampleStyles \X {<<115, 121, 110, 116, 97, 120>>}]

(***************************************************************************)
(* The callers.  A caller with no call in flight makes one; the call       *)
(* returns what the function computes from its argument.                   *)
(***************************************************************************)
NoReq == [op |-> "none", arg |-> <<>>]
NoRet == [tag |-> "none", val |-> <<>>]

Init ==
    /\ pc = [c \in Callers |-> "idle"]
    /\ req = [c \in Callers |-> NoReq]
    /\ ret = [c \in Callers |-> NoRet]

Invoke(c, inputs) ==
    /\ pc[c] \in {"idle", "returned"}
    /\ \E op \in DOMAIN inputs : \E arg \in inputs[op] :
          req' = [req EXCEPT ![c] = [op |-> op, arg |-> arg]]
    /\ pc' = [pc EXCEPT ![c] = "invoked"]
    /\ ret' = [ret EXCEPT ![c] = NoRet]

Return_translate_colour(c) ==
    /\ pc[c] = "invoked"
    /\ req[c].op = "translate_colour"
    /\ ret' = [ret EXCEPT ![c] = translate_colour(req[c].arg)]
    /\ pc' = [pc EXCEPT ![c] = "returned"]
    /\ UNCHANGED req

Return_translate_font_style(c) ==
    /\ pc[c] = "invoked"
    /\ req[c].op = "translate_font_style"
    /\ ret' = [ret EXCEPT ![c] = translate_font_style(req[c].arg)]
    /\ pc' = [pc EXCEPT ![c] = "returned"]
    /\ UNCHANGED req

Return_translate_style(c) ==
    /\ pc[c] = "invoked"
    /\ req[c].op = "translate_style"
    /\ ret' = [ret EXCEPT ![c] = translate_style(req[c].arg)]
    /\ pc' = [pc EXCEPT ![c] = "returned"]
    /\ UNCHANGED req

Return_into_span(c) ==
    /\ pc[c] = "invoked"
    /\ req[c].op = "into_span"
    /\ ret' = [ret EXCEPT ![c] = into_span(req[c].arg)]
    /\ pc' = [pc EXCEPT ![c] = "returned"]
    /\ UNCHANGED req

Step(c, inputs) ==
    \/ Invoke(c, inputs)
    \/ Return_translate_colour(c)
    \/ Return_translate_font_style(c)
    \/ Return_translate_style(c)
    \/ Return_into_span(c)

\* one caller, every input
Next == Step(1, FullInputs)

Spec == Init /\ [][Next]_vars

\* several callers, their calls interleaved
NextCallers == \E c \in Callers : Step(c, SampleInputs)

SpecCallers == Init /\ [][NextCallers]_vars

(***************************************************************************)
(* Reading the state.                                                      *)
(***************************************************************************)
Returned(c, op) == pc[c] = "returned" /\ req[c].op = op

\* the flag, one bit, is set in bits
HasBit(bits, flag) == (bits \div flag) % 2 = 1

\* the font style with exactly the named flags, and the modifier it stands for
FlagBits(on, flag) == IF on THEN flag.bits ELSE 0
Composed(b, i, u) ==
    FontStyle(FlagBits(b, FontStyle_BOLD) + FlagBits(i, FontStyle_ITALIC)
              + FlagBits(u, FontStyle_UNDERLINE))
Expected(b, i, u) ==
    Modifier(FlagBits(b, Modifier_BOLD) + FlagBits(i, Modifier_ITALIC)
             + FlagBits(u, Modifier_UNDERLINED))
Recognised == {Composed(b, i, u) : b \in BOOLEAN, i \in BOOLEAN, u \in BOOLEAN}

\* C1: for each of the 8 subsets of {BOLD, ITALIC, UNDERLINE}, translate_font_style
\* returns Ok with the modifier set that has BOLD iff BOLD was given, ITALIC iff
\* ITALIC, UNDERLINED iff UNDERLINE, and no other modifier.
C1_RecognisedTranslated ==
    \A c \in Callers : \A b \in BOOLEAN, i \in BOOLEAN, u \in BOOLEAN :
        (Returned(c, "translate_font_style") /\ req[c].arg = Composed(b, i, u))
        => /\ ret[c].tag = "Ok"
           /\ HasBit(ret[c].val.bits, Modifier_BOLD.bits) <=> b
           /\ HasBit(ret[c].val.bits, Modifier_ITALIC.bits) <=> i
           /\ HasBit(ret[c].val.bits, Modifier_UNDERLINED.bits) <=> u
           /\ ret[c].val = Expected(b, i, u)

C1_Witness ==
    \E c \in Callers :
        /\ Returned(c, "translate_font_style")
        /\ req[c].arg = Composed(TRUE, FALSE, TRUE)
        /\ ret[c] = Ok(Modifier(9))

\* C2: for every u8 value that is none of the 8 recognised combinations (a value
\* with a bit outside the three flags), translate_font_style returns
\* Err(UnknownFontStyle) whose bits are the input's raw bits.
C2_UnknownRejectedWithRawBits ==
    \A c \in Callers :
        (Returned(c, "translate_font_style")
            /\ (req[c].arg \notin Recognised \/ req[c].arg.bits \div 8 > 0))
        => /\ ret[c].tag = "Err"
           /\ ret[c].val = UnknownFontStyle(req[c].arg.bits)

C2_Witness ==
    \E c \in Callers :
        /\ Returned(c, "translate_font_style")
        /\ req[c].arg.bits = 254
        /\ ret[c] = Err(UnknownFontStyle(254))

\* C3: translate_colour returns None for every colour whose alpha is 0, whatever
\* its red, green and blue.
C3_TransparentIsNone ==
    \A c \in Callers :
        (Returned(c, "translate_colour") /\ req[c].arg.a = 0) => ret[c].tag = "None"

C3_Witness ==
    \E c \in Callers :
        /\ Returned(c, "translate_colour")
        /\ req[c].arg = Color(255, 123, 12, 0)
        /\ ret[c] = None

\* C4: for every colour with alpha in 1..255, translate_colour returns
\* Some(Rgb(r, g, b)) with the channels copied exactly, so the result does not
\* depend on which nonzero alpha it is.
C4_OpaqueCopied ==
    \A c \in Callers :
        (Returned(c, "translate_colour") /\ req[c].arg.a \in 1..U8_MAX)
        => /\ ret[c].tag = "Some"
           /\ ret[c].val = Rgb(req[c].arg.r, req[c].arg.g, req[c].arg.b)

C4_Witness ==
    \E c \in Callers :
        /\ Returned(c, "translate_colour")
        /\ req[c].arg = Color(12, 123, 255, 1)
        /\ ret[c] = Some(Rgb(12, 123, 255))

\* C5: translate_style returns Err exactly when translate_font_style of the
\* style's font_style does, and then the same error; the colours, alpha 0
\* included, never make it fail.
C5_StyleFailsIffFontStyleFails ==
    \A c \in Callers :
        Returned(c, "translate_style")
        => LET f == translate_font_style(req[c].arg.font_style)
           IN  /\ ret[c].tag \in {"Ok", "Err"}
               /\ ret[c].tag = "Err" <=> f.tag = "Err"
               /\ ret[c].tag = "Err" <=> req[c].arg.font_style \notin Recognised
               /\ ret[c].tag = "Err" => ret[c].val = f.val

C5_Witness ==
    \E c \in Callers :
        /\ Returned(c, "translate_style")
        /\ req[c].arg = SyntectStyle(Color(0, 0, 0, 0), Color(12, 123, 234, 0), FontStyle(254))
        /\ ret[c] = Err(UnknownFontStyle(254))

\* C6: into_span returns Ok exactly when translate_style of the same style does,
\* with the input text as content and translate_style's result as style; when
\* translate_style fails it returns that error and no span.
C6_SpanIffStyle ==
    \A c \in Callers :
        Returned(c, "into_span")
        => LET s == translate_style(req[c].arg[1])
           IN  /\ ret[c].tag \in {"Ok", "Err"}
               /\ ret[c].tag = "Ok" <=> s.tag = "Ok"
               /\ ret[c].tag = "Ok" => /\ ret[c].val.content = req[c].arg[2]
                                      /\ ret[c].val.style = s.val
               /\ ret[c].tag = "Err" => ret[c].val = s.val

C6_Witness ==
    \E c \in Callers :
        /\ Returned(c, "into_span")
        /\ req[c].arg[1].font_style = FontStyle(254)
        /\ Len(req[c].arg[2]) > 0
        /\ ret[c] = Err(UnknownFontStyle(254))

\* C7: a font style made from the raw value 3 is rejected with UnknownFontStyle.
C7_RawThreeRejected ==
    \A c \in Callers :
        (Returned(c, "translate_font_style") /\ req[c].arg = FontStyle(3))
        => /\ ret[c].tag = "Err"
           /\ ret[c].val = UnknownFontStyle(3)

\* C8: every Ok of translate_style, and the style of every span of into_span,
\* has an empty sub_modifier.
C8_SubModifierEmpty ==
    \A c \in Callers :
        /\ (Returned(c, "translate_style") /\ ret[c].tag = "Ok")
           => ret[c].val.sub_modifier = Modifier_empty
        /\ (Returned(c, "into_span") /\ ret[c].tag = "Ok")
           => ret[c].val.style.sub_modifier = Modifier_empty

C8_Witness ==
    \E c \in Callers :
        /\ Returned(c, "into_span")
        /\ ret[c].tag = "Ok"
        /\ ret[c].val.style.add_modifier = Modifier(13)
        /\ ret[c].val.style.sub_modifier = Modifier_empty

\* C9: on success translate_style's fg is translate_colour of the foreground and
\* its bg translate_colour of the background, each from its own colour only: a
\* background with alpha 0 gives bg None, a foreground with alpha 0 fg None.
C9_ColoursEachFromItsOwn ==
    \A c \in Callers :
        (Returned(c, "translate_style") /\ ret[c].tag = "Ok")
        => /\ ret[c].val.fg = translate_colour(req[c].arg.foreground)
           /\ ret[c].val.bg = translate_colour(req[c].arg.background)
           /\ req[c].arg.background.a = 0 => ret[c].val.bg.tag = "None"
           /\ req[c].arg.foreground.a = 0 => ret[c].val.fg.tag = "None"
           /\ req[c].arg.background.a > 0
              => ret[c].val.bg = Some(Rgb(req[c].arg.background.r,
                                          req[c].arg.background.g,
                                          req[c].arg.background.b))
           /\ req[c].arg.foreground.a > 0
              => ret[c].val.fg = Some(Rgb(req[c].arg.foreground.r,
                                          req[c].arg.foreground.g,
                                          req[c].arg.foreground.b))

C9_Witness ==
    \E c \in Callers :
        /\ Returned(c, "translate_style")
        /\ req[c].arg.background = Color(12, 123, 234, 0)
        /\ req[c].arg.foreground = Color(123, 234, 12, 128)
        /\ ret[c].tag = "Ok"
        /\ ret[c].val.bg = None
        /\ ret[c].val.fg = Some(Rgb(123, 234, 12))

=============================================================================
